---- MODULE Spec2Model ----
(***************************************************************************)
(* A model of the clipboard history utility: the History store             *)
(* (src/src/history.rs), and the threads that share it and the visibility   *)
(* flag (src/src/clipboard.rs, hotkey.rs, tray.rs, app.rs).                 *)
(***************************************************************************)
EXTENDS Integers, Sequences, FiniteSets, TLC

(***************************************************************************)
(* Bounds of the model.                                                    *)
(***************************************************************************)
\* History::new accepts any usize; the model tries max_size in 0..MaxSizeBound.
MaxSizeBound == 3
\* Utc::now() is read from a clock that ticks at most MaxClock times.
MaxClock == 1
\* At most MaxNewEntries entries are ever created (caps next_id).
MaxNewEntries == 4

\* SkimMatcherV2 scores (i64) are tried in 0..MaxScore.
MaxScore == 1

\* Clipboard texts: the empty string and three distinct non-empty texts.
Contents == {"", "a", "b", "c"}

\* Search queries: the empty query and one non-empty query.
Queries == {"", "q"}

VARIABLES
    entries,    \* History.entries: Vec<ClipboardEntry>, index 1 = most recent
    max_size,   \* History.max_size
    next_id,    \* History.next_id
    utc_now,    \* the value Utc::now() returns
    last_push,  \* history variable: the last push call (argument, store before, result)
    assigned    \* history variable: ids given to new entries, in creation order

VARIABLES
    matcher,     \* what SkimMatcherV2::fuzzy_match returns for each content and
                 \* the query "q": None, or Some(score)
    last_load,   \* history variable: the last storage::load call
    last_search  \* history variable: the last fuzzy::search call

\* The records of the calls of the functions that are called on their own.
cvars == <<matcher, last_load, last_search>>

hvars == <<entries, max_size, next_id, utc_now, last_push, assigned, cvars>>

VARIABLES
    windows,         \* the build: TRUE for cfg(windows), FALSE otherwise
    visible,         \* Arc<Mutex<bool>>: the visibility flag
    vis_lock,        \* the thread that holds the lock of visible, or "free"
    hist_lock,       \* the thread that holds the lock of the History, or "free"
    os_clipboard,    \* the text on the OS clipboard
    file,            \* history.json: absent, or a document holding a History
    win_shown,       \* whether the OS shows the window
    repaint_req,     \* TRUE while a ctx.request_repaint() is not yet served
    wake_in,         \* ms until the repaint asked by request_repaint_after, -1: none
    ui_pc,           \* where the UI thread is in update()
    initialized,     \* ClipboardHistoryApp.initialized
    was_visible,     \* ClipboardHistoryApp.was_visible
    selected_content,\* update()'s local selected_content ("" stands for None)
    poller_pc,       \* where the clipboard monitor thread is
    last_text,       \* start_monitor's local last_text
    current_text,    \* start_monitor's local current_text
    save_result,     \* what storage::save returned this iteration: "none", "ok", "err"
    hk_pc,           \* where the hotkey listener's callback is
    ctrl_is_down,    \* start_listener's ctrl_is_down
    last_ctrl_press, \* ms since the Instant in last_ctrl_press (capped), -1: None
    tray_pc,         \* where each tray menu thread is
    menu_events,     \* Show/Hide events waiting in MenuEvent::receiver(), counted
                     \* by the menu (the build_tray call) whose item was picked
    unseen_age,      \* history variable: ms since a toggle gave the flag a value
                     \* other than the one the UI thread last read or wrote, -1
                     \* while the flag has that value
    signals,         \* history variable: the contents pushed whose repaint request
                     \* is not yet served
    woken_by,        \* history variable: the contents whose request the frame in
                     \* progress serves
    view_cmd,        \* the last ViewportCommand::Visible the UI thread sent:
                     \* "show" or "hide" (the viewport is built hidden)
    query_dirty,     \* TRUE while search_query is not empty or selected_index
                     \* is not 0
    rose             \* history variable: the flag went from false to true, and
                     \* not back, since the UI thread last read or wrote it

svars == <<windows, visible, vis_lock, hist_lock, os_clipboard, file, win_shown,
           repaint_req, wake_in, ui_pc, initialized, was_visible,
           selected_content, poller_pc, last_text, current_text, save_result,
           hk_pc, ctrl_is_down, last_ctrl_press, tray_pc, menu_events,
           unseen_age, signals, woken_by, view_cmd, query_dirty, rose>>

\* The keys and the view as the user meets them: history variables of the
\* key events the hotkey listener receives, and the state of the result list.
VARIABLES
    key_repeats,    \* history variable: the Ctrl key-press events received while
                    \* ctrl_is_down since the last press that found it false
    since_press,    \* history variable: ms since the last press that found
                    \* ctrl_is_down false (capped at DoubleTapMs), -1: none yet
    prev_armed,     \* history variable: that press did not go on to toggle
    run_even,       \* history variable: that press is the 2nd, 4th, ... of a run
                    \* of presses each less than DoubleTapMs after the one before
    search_query,   \* ClipboardHistoryApp.search_query
    selected_index, \* ClipboardHistoryApp.selected_index (0-based)
    last_render,    \* history variable: the last pass over the result list
    user_does       \* what the user does in this run: "anything", or only
                    \* "keys" (Ctrl), "menus" (tray), "copies" (clipboard and
                    \* the tray menu of main's icon)

kvars == <<key_repeats, since_press, prev_armed, run_even>>
nvars == <<search_query, selected_index, last_render>>
gvars == <<kvars, nvars, user_does>>

vars == <<hvars, svars, gvars>>

(***************************************************************************)
(* History (src/src/history.rs)                                            *)
(***************************************************************************)
ClipboardEntry(id, content, created_at) ==
    [id |-> id, content |-> content, created_at |-> created_at]

\* History::new(max_size)
HistoryNew(m) == [entries |-> <<>>, max_size |-> m, next_id |-> 1]

\* if let Some(latest) = self.entries.first() { latest.content == content }
latest_never(es, content) == FALSE
latest_is(es, content) == Len(es) > 0 /\ es[1].content = content

\* self.entries.iter().position(|e| e.content == content); 0 stands for None
position_none(es, content) == 0
position(es, content) ==
    IF \E i \in 1..Len(es) : es[i].content = content
    THEN CHOOSE i \in 1..Len(es) :
            /\ es[i].content = content
            /\ \A j \in 1..(i - 1) : es[j].content /= content
    ELSE 0

\* Vec::remove(pos): the vector without the element at pos
remove_nothing(es, pos) == es
remove(es, pos) == SubSeq(es, 1, pos - 1) \o SubSeq(es, pos + 1, Len(es))

\* Vec::insert(0, entry)
insert_back(es, e) == es \o <<e>>
insert_front(es, e) == <<e>> \o es

\* Vec::truncate(len): keeps the first len elements, no effect if len >= Len
truncate_noop(es, len) == es
truncate(es, len) == IF len < Len(es) THEN SubSeq(es, 1, len) ELSE es

\* self.next_id += 1. next_id is a u64 that starts at 1: the addition cannot
\* overflow before 2^64 - 1 entries were created, far beyond MaxNewEntries.
next_id_same(id) == id
next_id_incr(id) == id + 1

\* History::push(content) at time now: the store after the call (hist), the
\* value returned (ret) and, for the history variables, the id given to a
\* newly created entry (new_id, 0 when none was created).
push(h, content, now) ==
    IF latest_is(h.entries, content)
    THEN [hist |-> h, ret |-> FALSE, new_id |-> 0]
    ELSE LET pos == position(h.entries, content) IN
         IF pos /= 0
         THEN LET entry == [h.entries[pos] EXCEPT !.created_at = now]
              IN  [hist |-> [h EXCEPT !.entries =
                                insert_front(remove(h.entries, pos), entry)],
                   ret |-> TRUE, new_id |-> 0]
         ELSE LET entry == ClipboardEntry(h.next_id, content, now)
                  es == insert_front(h.entries, entry)
              IN  [hist |-> [h EXCEPT
                                !.next_id = next_id_incr(h.next_id),
                                !.entries = IF Len(es) > h.max_size
                                            THEN truncate(es, h.max_size)
                                            ELSE es],
                   ret |-> TRUE, new_id |-> h.next_id]

\* The History value held in the variables.
Store == [entries |-> entries, max_size |-> max_size, next_id |-> next_id]

NoPush == [called |-> FALSE, content |-> "", pre |-> HistoryNew(0), now |-> 0,
           ret |-> FALSE]

(***************************************************************************)
(* Fuzzy search (src/src/fuzzy.rs)                                         *)
(***************************************************************************)
\* Option<i64>
None == [some |-> FALSE, score |-> 0]
Some(s) == [some |-> TRUE, score |-> s]

\* What the matcher may answer for the non-empty query, content by content:
\* no match or a score, and no match in the empty content.
Matchers ==
    {m \in [Contents -> {None} \cup {Some(s) : s \in 0..MaxScore}] :
        m[""] = None}
NoMatch == [c \in Contents |-> None]

\* matcher.fuzzy_match(&entry.content, query)
fuzzy_match(content, query) == matcher[content]

\* entries.iter().filter_map(|entry| fuzzy_match(..).map(|score| (entry, score)))
RECURSIVE filter_map(_, _)
filter_map(es, query) ==
    IF es = <<>> THEN <<>>
    ELSE LET m == fuzzy_match(Head(es).content, query)
             rest == filter_map(Tail(es), query)
         IN  IF m.some
             THEN <<[entry |-> Head(es), score |-> m.score]>> \o rest
             ELSE rest

\* results.sort_by(|a, b| b.1.cmp(&a.1)): a stable sort, highest score first.
sort_by_nothing(rs) == rs
RECURSIVE sort_by(_)
sort_by(rs) ==
    IF rs = <<>> THEN <<>>
    ELSE LET s == sort_by(SubSeq(rs, 1, Len(rs) - 1))
             x == rs[Len(rs)]
             k == Cardinality({i \in 1..Len(s) : s[i].score >= x.score})
         IN  SubSeq(s, 1, k) \o <<x>> \o SubSeq(s, k + 1, Len(s))

\* fuzzy::search(query, entries)
search_unconditional(query, es) == sort_by(filter_map(es, query))
search(query, es) ==
    IF query = ""
    THEN [i \in 1..Len(es) |-> [entry |-> es[i], score |-> 0]]
    ELSE sort_by(filter_map(es, query))

NoSearch == [called |-> FALSE, query |-> "", entries |-> <<>>, ret |-> <<>>]

(***************************************************************************)
(* The threads and what they share                                         *)
(***************************************************************************)
\* ctx.request_repaint_after(Duration::from_millis(100))
RepaintAfterMs == 100
\* elapsed.as_millis() < 300
DoubleTapMs == 300
\* Time advances in steps of one repaint period.
TickMs == RepaintAfterMs
\* unseen_age is not counted beyond the first value above the period.
AgeCap == RepaintAfterMs + TickMs
\* MenuEvent::receiver() holds at most MaxMenuEvents unread events.
MaxMenuEvents == 1
\* At most MaxRepeats key-press events of a held key are counted per press.
MaxRepeats == 2

\* Texts the user copies while the program runs.
SysTexts == {"", "a", "b"}

\* The two threads build_tray spawns: from main (with egui::Context::default())
\* and from the first frame of update (with the real context).
TrayThreads == {"tray_main", "tray_app"}

Min(a, b) == IF a < b THEN a ELSE b

\* The number of events waiting in the receiver.
waiting(events) == events["tray_main"] + events["tray_app"]

\* serde's format of DateTime<Utc>: an RFC 3339 string, and its parse.
to_rfc3339(t) == <<"rfc3339", t>>
parse_rfc3339(s) == s[2]

\* serde_json's format of a String: quoted and escaped, and its parse.
json_string(s) == <<"json", s>>
parse_json_string(j) == j[2]

\* derive(Serialize, Deserialize) for ClipboardEntry.
entry_to_json(e) ==
    [id |-> e.id, content |-> json_string(e.content),
     created_at |-> to_rfc3339(e.created_at)]
entry_from_json(j) ==
    ClipboardEntry(j.id, parse_json_string(j.content),
                   parse_rfc3339(j.created_at))

\* derive(Serialize) for History: an object with the three fields. has_next_id
\* tells whether the object has a next_id member.
to_json_skip_next_id(h) ==
    [entries |-> [i \in 1..Len(h.entries) |-> entry_to_json(h.entries[i])],
     max_size |-> h.max_size, next_id |-> 0, has_next_id |-> FALSE]
to_json(h) ==
    [entries |-> [i \in 1..Len(h.entries) |-> entry_to_json(h.entries[i])],
     max_size |-> h.max_size, next_id |-> h.next_id, has_next_id |-> TRUE]

\* derive(Deserialize) for History; #[serde(default)] next_id: 0 when the
\* object has no next_id member.
from_json(d) ==
    [entries |-> [i \in 1..Len(d.entries) |-> entry_from_json(d.entries[i])],
     max_size |-> d.max_size,
     next_id |-> IF d.has_next_id THEN d.next_id ELSE 0]

\* history.json: no file (or one that cannot be read), the document of a
\* History, bytes that are not such a document, or what a write that stopped
\* part-way left.
AbsentFile == [kind |-> "absent", doc |-> to_json(HistoryNew(0))]
CorruptFile == [kind |-> "corrupt", doc |-> to_json(HistoryNew(0))]
PartialFile == [kind |-> "partial", doc |-> to_json(HistoryNew(0))]
Document(h) == [kind |-> "doc", doc |-> to_json(h)]

\* storage::load(max_size): the History of the document if the file is read
\* and parsed, a new History if not.
load_unsized(f, m) == IF f.kind = "doc" THEN from_json(f.doc) ELSE HistoryNew(0)
load(f, m) == IF f.kind = "doc" THEN from_json(f.doc) ELSE HistoryNew(m)

\* storage::save(history) on the file f: what the file holds afterwards and
\* what is returned. create_dir_all or to_string_pretty fails and the file is
\* not touched; fs::write truncates the file and then fails; or it writes the
\* whole document.
save(f, h) ==
    {[file |-> f, ret |-> "err"],
     [file |-> PartialFile, ret |-> "err"],
     [file |-> Document(h), ret |-> "ok"]}

NoLoad == [called |-> FALSE, file |-> AbsentFile, pre |-> HistoryNew(0),
           arg |-> 0, ret |-> HistoryNew(0)]

\* What history.json holds when the program starts: nothing, or the History an
\* earlier run saved after one push.
InitFiles ==
    {AbsentFile,
     Document([entries |-> <<ClipboardEntry(1, "a", 0)>>,
               max_size |-> MaxSizeBound, next_id |-> 2])}

\* No pass over the result list was made yet.
NoRender == [called |-> FALSE, enter |-> FALSE, before |-> 0, index |-> 0,
             len |-> 0]

\* update() is only called for a window that gets repaint events: the first
\* frame, any frame off Windows, and on Windows only while the window is shown.
Deliverable == ~initialized \/ ~windows \/ win_shown

\* show_window_native() / hide_window_native(): ShowWindow on Windows, a no-op
\* elsewhere.
native_shown(shown, w) == IF w THEN shown ELSE win_shown

\* A producer has flipped the flag: away from the value the UI thread knows
\* (the new value ages from 0) or back to it.
toggled(age) == IF age = -1 THEN 0 ELSE -1

InitThreads ==
    /\ visible = FALSE
    /\ vis_lock = "free"
    /\ hist_lock = "free"
    /\ win_shown = FALSE
    /\ repaint_req = FALSE
    /\ wake_in = -1
    /\ ui_pc = "idle"
    /\ initialized = FALSE
    /\ was_visible = FALSE
    /\ selected_content = ""
    /\ poller_pc = "off"
    /\ last_text = ""
    /\ current_text = ""
    /\ save_result = "none"
    /\ hk_pc = "off"
    /\ ctrl_is_down = FALSE
    /\ last_ctrl_press = -1
    /\ tray_pc = [t \in TrayThreads |-> IF t = "tray_main" THEN "recv" ELSE "off"]
    /\ menu_events = [i \in TrayThreads |-> 0]
    /\ unseen_age = -1
    /\ signals = {}
    /\ woken_by = {}
    /\ view_cmd = "hide"
    /\ query_dirty = FALSE
    /\ rose = FALSE
    /\ key_repeats = 0
    /\ since_press = -1
    /\ prev_armed = FALSE
    /\ run_even = FALSE
    /\ search_query = ""
    /\ selected_index = 0
    /\ last_render = NoRender

\* main(): the History is loaded with Config::default().max_size (100 in the
\* source, MaxSizeBound here), the flag starts false, the window hidden.
Init ==
    /\ windows \in BOOLEAN
    /\ os_clipboard \in SysTexts
    /\ file \in InitFiles
    /\ InitThreads
    /\ user_does = "anything"
    /\ max_size = load(file, MaxSizeBound).max_size
    /\ entries = load(file, MaxSizeBound).entries
    /\ next_id = load(file, MaxSizeBound).next_id
    /\ utc_now = 0
    /\ last_push = NoPush
    /\ assigned = <<>>
    /\ matcher = NoMatch
    /\ last_load = NoLoad
    /\ last_search = NoSearch

historyVars == <<entries, max_size, next_id, last_push, assigned>>
pollerVars == <<poller_pc, last_text, current_text, save_result>>
hotkeyVars == <<hk_pc, ctrl_is_down, last_ctrl_press>>
trayVars == <<tray_pc, menu_events>>
uiVars == <<ui_pc, initialized, was_visible, selected_content, woken_by,
            view_cmd, query_dirty>>

(***************************************************************************)
(* The environment: time, the user, other programs                         *)
(***************************************************************************)
\* TickMs pass on the monotonic clock (Instant). The first frame runs at
\* start-up; handlers and frames take no time; a repaint that is due is served
\* before more time passes, if the window gets repaint events.
Tick ==
    /\ initialized
    /\ ui_pc = "idle"
    /\ hk_pc \in {"off", "listen"}
    /\ \A t \in TrayThreads : tray_pc[t] \in {"off", "recv"}
    /\ ~(Deliverable /\ wake_in = 0)
    /\ wake_in' = IF wake_in > 0 THEN wake_in - TickMs ELSE wake_in
    /\ unseen_age' = IF unseen_age >= 0 THEN Min(unseen_age + TickMs, AgeCap)
                     ELSE unseen_age
    /\ last_ctrl_press' = IF last_ctrl_press >= 0
                          THEN Min(last_ctrl_press + TickMs, DoubleTapMs)
                          ELSE last_ctrl_press
    /\ since_press' = IF since_press >= 0
                      THEN Min(since_press + TickMs, DoubleTapMs)
                      ELSE since_press
    /\ UNCHANGED <<hvars, nvars, user_does, key_repeats, prev_armed, run_even, windows, visible, vis_lock, hist_lock,
                   os_clipboard, file, win_shown, repaint_req, uiVars,
                   pollerVars, hk_pc, ctrl_is_down, trayVars, signals, rose>>

\* The user, or another program, puts text on the clipboard or clears it.
UserCopy(text) ==
    /\ os_clipboard /= text
    /\ os_clipboard' = text
    /\ UNCHANGED <<hvars, gvars, windows, visible, vis_lock, hist_lock, file,
                   win_shown, repaint_req, wake_in, uiVars, pollerVars,
                   hotkeyVars, trayVars, unseen_age, rose, signals>>

\* The user picks Show/Hide in the menu of the tray icon that build_tray call
\* i made. The event carries the id of that menu's item.
MenuClick(i) ==
    /\ tray_pc[i] /= "off"
    /\ waiting(menu_events) < MaxMenuEvents
    /\ menu_events' = [menu_events EXCEPT ![i] = @ + 1]
    /\ UNCHANGED <<hvars, gvars, windows, visible, vis_lock, hist_lock, os_clipboard,
                   file, win_shown, repaint_req, wake_in, uiVars, pollerVars,
                   hotkeyVars, tray_pc, unseen_age, rose, signals>>

(***************************************************************************)
(* The clipboard monitor (src/src/clipboard.rs)                            *)
(***************************************************************************)
\* Clipboard::new() fails and the thread returns, or last_text is read once
\* (get_text().unwrap_or_default()).
PollerInit ==
    /\ poller_pc = "init"
    /\ \/ /\ poller_pc' = "exited"
          /\ UNCHANGED last_text
       \/ /\ poller_pc' = "sleep"
          /\ last_text' \in {os_clipboard, ""}
    /\ UNCHANGED <<hvars, gvars, windows, visible, vis_lock, hist_lock, os_clipboard,
                   file, win_shown, repaint_req, wake_in, uiVars, current_text,
                   save_result, hotkeyVars, trayVars, unseen_age, rose, signals>>

\* thread::sleep(poll_interval) returns.
PollerWake ==
    /\ poller_pc = "sleep"
    /\ poller_pc' = "get_text"
    /\ UNCHANGED <<hvars, gvars, windows, visible, vis_lock, hist_lock, os_clipboard,
                   file, win_shown, repaint_req, wake_in, uiVars, last_text,
                   current_text, save_result, hotkeyVars, trayVars, unseen_age, rose,
                   signals>>

\* clipboard.get_text() fails (continue), or returns the text, which is
\* compared with last_text.
PollerGetTextThenNotify ==
    /\ poller_pc = "get_text"
    /\ IF os_clipboard /= last_text /\ os_clipboard /= ""
       THEN /\ current_text' = os_clipboard
            /\ last_text' = os_clipboard
            /\ poller_pc' = "lock"
            /\ repaint_req' = TRUE
            /\ signals' = signals \cup {os_clipboard}
       ELSE /\ poller_pc' = "sleep"
            /\ UNCHANGED <<last_text, current_text, signals, repaint_req>>
    /\ UNCHANGED <<hvars, gvars, windows, visible, vis_lock, hist_lock, os_clipboard,
                   file, win_shown, wake_in, uiVars, save_result,
                   hotkeyVars, trayVars, unseen_age, rose>>

PollerGetText ==
    /\ poller_pc = "get_text"
    /\ \/ /\ poller_pc' = "sleep"
          /\ UNCHANGED <<last_text, current_text>>
       \/ IF os_clipboard /= last_text /\ os_clipboard /= ""
          THEN /\ current_text' = os_clipboard
               /\ last_text' = os_clipboard
               /\ poller_pc' = "lock"
          ELSE /\ poller_pc' = "sleep"
               /\ UNCHANGED <<last_text, current_text>>
    /\ UNCHANGED <<hvars, gvars, windows, visible, vis_lock, hist_lock, os_clipboard,
                   file, win_shown, repaint_req, wake_in, uiVars, save_result,
                   hotkeyVars, trayVars, unseen_age, rose, signals>>

\* let mut hist = history.lock().unwrap();
PollerLock ==
    /\ poller_pc = "lock"
    /\ hist_lock = "free"
    /\ hist_lock' = "poller"
    /\ poller_pc' = "push"
    /\ UNCHANGED <<hvars, gvars, windows, visible, vis_lock, os_clipboard, file,
                   win_shown, repaint_req, wake_in, uiVars, last_text,
                   current_text, save_result, hotkeyVars, trayVars, unseen_age, rose,
                   signals>>

\* hist.push(current_text); on false the guard is dropped and the loop goes on.
PollerPush ==
    /\ poller_pc = "push"
    /\ next_id <= MaxNewEntries
    /\ LET r == push(Store, current_text, utc_now) IN
        /\ entries' = r.hist.entries
        /\ next_id' = r.hist.next_id
        /\ max_size' = r.hist.max_size
        /\ IF r.ret
           THEN /\ poller_pc' = "save"
                /\ UNCHANGED <<hist_lock, current_text>>
           ELSE /\ poller_pc' = "sleep"
                /\ hist_lock' = "free"
                /\ current_text' = ""
    /\ UNCHANGED <<utc_now, last_push, assigned, cvars, gvars, windows, visible,
                   vis_lock, os_clipboard, file, win_shown, repaint_req, wake_in, uiVars,
                   last_text, save_result, hotkeyVars, trayVars, unseen_age, rose,
                   signals>>

\* storage::save(&hist) is skipped.
PollerSaveSkipped ==
    /\ poller_pc = "save"
    /\ poller_pc' = "repaint"
    /\ UNCHANGED <<file, save_result>>
    /\ UNCHANGED <<hvars, gvars, windows, visible, vis_lock, hist_lock, os_clipboard,
                   win_shown, repaint_req, wake_in, uiVars, last_text,
                   current_text, hotkeyVars, trayVars, unseen_age, rose, signals>>

\* storage::save(&hist), first part: create_dir_all or to_string_pretty fails
\* and save returns the error, or fs::write opens the file, which empties it.
PollerSave ==
    /\ poller_pc = "save"
    /\ \/ /\ save_result' = "err"
          /\ poller_pc' = "repaint"
          /\ UNCHANGED file
       \/ /\ file' = PartialFile
          /\ poller_pc' = "write"
          /\ UNCHANGED save_result
    /\ UNCHANGED <<hvars, gvars, windows, visible, vis_lock, hist_lock, os_clipboard,
                   win_shown, repaint_req, wake_in, uiVars, last_text,
                   current_text, hotkeyVars, trayVars, unseen_age, rose, signals>>

\* storage::save(&hist), second part: fs::write writes the whole document and
\* save returns Ok, or the write fails and save returns the error.
PollerWrite ==
    /\ poller_pc = "write"
    /\ \/ /\ file' = Document(Store)
          /\ save_result' = "ok"
       \/ /\ save_result' = "err"
          /\ UNCHANGED file
    /\ poller_pc' = "repaint"
    /\ UNCHANGED <<hvars, gvars, windows, visible, vis_lock, hist_lock, os_clipboard,
                   win_shown, repaint_req, wake_in, uiVars, last_text,
                   current_text, hotkeyVars, trayVars, unseen_age, rose, signals>>

\* ctx.request_repaint();
PollerRepaint ==
    /\ poller_pc = "repaint"
    /\ repaint_req' = TRUE
    /\ signals' = signals \cup {current_text}
    /\ poller_pc' = "unlock"
    /\ UNCHANGED <<hvars, gvars, windows, visible, vis_lock, hist_lock, os_clipboard,
                   file, win_shown, wake_in, uiVars, last_text, current_text,
                   save_result, hotkeyVars, trayVars, unseen_age, rose>>

\* The guard hist goes out of scope at the end of the if block.
PollerUnlock ==
    /\ poller_pc = "unlock"
    /\ hist_lock' = "free"
    /\ current_text' = ""
    /\ save_result' = "none"
    /\ poller_pc' = "sleep"
    /\ UNCHANGED <<hvars, gvars, windows, visible, vis_lock, os_clipboard, file,
                   win_shown, repaint_req, wake_in, uiVars, last_text,
                   hotkeyVars, trayVars, unseen_age, rose, signals>>

Poller ==
    \/ PollerInit
    \/ PollerWake
    \/ PollerGetText
    \/ PollerLock
    \/ PollerPush
    \/ PollerSave
    \/ PollerWrite
    \/ PollerRepaint
    \/ PollerUnlock

(***************************************************************************)
(* The hotkey listener (src/src/hotkey.rs)                                 *)
(***************************************************************************)
\* The key-press events of a held key are not told apart from a second press.
HkKeyPressUnfiltered ==
    /\ hk_pc = "listen"
    /\ ctrl_is_down' = TRUE
    /\ IF last_ctrl_press /= -1 /\ last_ctrl_press < DoubleTapMs
       THEN /\ hk_pc' = "lock"
            /\ UNCHANGED last_ctrl_press
       ELSE /\ last_ctrl_press' = 0
            /\ UNCHANGED hk_pc
    /\ UNCHANGED <<hvars, nvars, user_does, windows, visible, vis_lock, hist_lock, os_clipboard,
                   file, win_shown, repaint_req, wake_in, uiVars, pollerVars,
                   trayVars, unseen_age, rose, signals>>

\* KeyPress(ControlLeft | ControlRight): ignored while ctrl_is_down; a press
\* less than 300 ms after the recorded one goes on to toggle, any other is
\* recorded.
HkKeyPress ==
    /\ hk_pc = "listen"
    /\ IF ctrl_is_down
       THEN UNCHANGED <<hk_pc, ctrl_is_down, last_ctrl_press>>
       ELSE /\ ctrl_is_down' = TRUE
            /\ IF last_ctrl_press /= -1 /\ last_ctrl_press < DoubleTapMs
               THEN /\ hk_pc' = "lock"
                    /\ UNCHANGED last_ctrl_press
               ELSE /\ last_ctrl_press' = 0
                    /\ UNCHANGED hk_pc
    /\ UNCHANGED <<hvars, nvars, user_does, windows, visible, vis_lock, hist_lock, os_clipboard,
                   file, win_shown, repaint_req, wake_in, uiVars, pollerVars,
                   trayVars, unseen_age, rose, signals>>

\* KeyRelease(ControlLeft | ControlRight)
HkKeyRelease ==
    /\ hk_pc = "listen"
    /\ ctrl_is_down
    /\ ctrl_is_down' = FALSE
    /\ UNCHANGED <<hvars, gvars, windows, visible, vis_lock, hist_lock, os_clipboard,
                   file, win_shown, repaint_req, wake_in, uiVars, pollerVars,
                   hk_pc, last_ctrl_press, trayVars, unseen_age, rose, signals>>

\* let mut v = vis.lock().unwrap();
HkLock ==
    /\ hk_pc = "lock"
    /\ vis_lock = "free"
    /\ vis_lock' = "hotkey"
    /\ hk_pc' = "toggle"
    /\ UNCHANGED <<hvars, gvars, windows, visible, hist_lock, os_clipboard, file,
                   win_shown, repaint_req, wake_in, uiVars, pollerVars,
                   ctrl_is_down, last_ctrl_press, trayVars, unseen_age, rose, signals>>

\* *v = !*v; let is_now_visible = *v; drop(v);
HkToggle ==
    /\ hk_pc = "toggle"
    /\ visible' = ~visible
    /\ vis_lock' = "free"
    /\ hk_pc' = IF visible' THEN "notify_show" ELSE "notify_hide"
    /\ unseen_age' = toggled(unseen_age)
    /\ rose' = visible'
    /\ UNCHANGED <<hvars, gvars, windows, hist_lock, os_clipboard, file, win_shown,
                   repaint_req, wake_in, uiVars, pollerVars, ctrl_is_down,
                   last_ctrl_press, trayVars, signals>>

\* The timestamp is left in place after a toggle.
HkNotifyKeepTimer ==
    /\ hk_pc \in {"notify_show", "notify_hide"}
    /\ win_shown' = native_shown(hk_pc = "notify_show", windows)
    /\ repaint_req' = TRUE
    /\ hk_pc' = "listen"
    /\ UNCHANGED <<hvars, gvars, windows, visible, vis_lock, hist_lock, os_clipboard,
                   file, wake_in, uiVars, pollerVars, ctrl_is_down, last_ctrl_press,
                   trayVars, unseen_age, rose, signals>>

\* show_window_native() or hide_window_native(); ctx.request_repaint();
\* *last = None;
HkNotify ==
    /\ hk_pc \in {"notify_show", "notify_hide"}
    /\ win_shown' = native_shown(hk_pc = "notify_show", windows)
    /\ repaint_req' = TRUE
    /\ last_ctrl_press' = -1
    /\ hk_pc' = "listen"
    /\ UNCHANGED <<hvars, gvars, windows, visible, vis_lock, hist_lock, os_clipboard,
                   file, wake_in, uiVars, pollerVars, ctrl_is_down, trayVars,
                   unseen_age, rose, signals>>

\* The listener with the key events not recorded.
Hotkey ==
    \/ HkKeyPress /\ UNCHANGED kvars
    \/ HkKeyRelease
    \/ HkLock
    \/ HkToggle
    \/ HkNotify

\* A Ctrl key-press event is delivered to the callback and recorded: as one
\* more event of a held key, or as a press that found ctrl_is_down false, with
\* what the callback did with it.
CtrlPress ==
    /\ HkKeyPress
    /\ IF ctrl_is_down
       THEN /\ key_repeats < MaxRepeats
            /\ key_repeats' = key_repeats + 1
            /\ UNCHANGED <<since_press, prev_armed, run_even>>
       ELSE /\ key_repeats' = 0
            /\ since_press' = 0
            /\ prev_armed' = (hk_pc' = "listen")
            /\ run_even' = IF since_press /= -1 /\ since_press < DoubleTapMs
                           THEN ~run_even
                           ELSE FALSE

\* The listener with the key events recorded.
HotkeyRecorded ==
    \/ CtrlPress
    \/ HkKeyRelease
    \/ HkLock
    \/ HkToggle
    \/ HkNotify

(***************************************************************************)
(* The tray menu threads (src/src/tray.rs)                                 *)
(***************************************************************************)
\* MenuEvent::receiver().recv() returns a waiting event to one of the threads.
\* The receiver is shared by the process and MenuItem::new gives every item an
\* id of its own: the event of the thread's own Show/Hide item goes on to
\* toggle (event.id() == &show_id), the event of the other menu's item matches
\* neither show_id nor quit_id and is dropped.
TrayRecv(t) ==
    /\ tray_pc[t] = "recv"
    /\ \E i \in TrayThreads :
           /\ menu_events[i] > 0
           /\ menu_events' = [menu_events EXCEPT ![i] = @ - 1]
           /\ tray_pc' = [tray_pc EXCEPT ![t] = IF i = t THEN "lock" ELSE "recv"]
    /\ UNCHANGED <<hvars, gvars, windows, visible, vis_lock, hist_lock, os_clipboard,
                   file, win_shown, repaint_req, wake_in, uiVars, pollerVars,
                   hotkeyVars, unseen_age, rose, signals>>

\* let mut v = visible.lock().unwrap();
TrayLock(t) ==
    /\ tray_pc[t] = "lock"
    /\ vis_lock = "free"
    /\ vis_lock' = t
    /\ tray_pc' = [tray_pc EXCEPT ![t] = "toggle"]
    /\ UNCHANGED <<hvars, gvars, windows, visible, hist_lock, os_clipboard, file,
                   win_shown, repaint_req, wake_in, uiVars, pollerVars,
                   hotkeyVars, menu_events, unseen_age, rose, signals>>

\* *v = !*v; let is_now_visible = *v; drop(v);
TrayToggle(t) ==
    /\ tray_pc[t] = "toggle"
    /\ visible' = ~visible
    /\ vis_lock' = "free"
    /\ tray_pc' = [tray_pc EXCEPT ![t] =
                      IF visible' THEN "notify_show" ELSE "notify_hide"]
    /\ unseen_age' = toggled(unseen_age)
    /\ rose' = visible'
    /\ UNCHANGED <<hvars, gvars, windows, hist_lock, os_clipboard, file, win_shown,
                   repaint_req, wake_in, uiVars, pollerVars, hotkeyVars,
                   menu_events, signals>>

\* show_window_native() or hide_window_native(); ctx.request_repaint(), which
\* reaches the UI only from the thread that holds the real context.
TrayNotify(t) ==
    /\ tray_pc[t] \in {"notify_show", "notify_hide"}
    /\ win_shown' = native_shown(tray_pc[t] = "notify_show", windows)
    /\ repaint_req' = (repaint_req \/ t = "tray_app")
    /\ tray_pc' = [tray_pc EXCEPT ![t] = "recv"]
    /\ UNCHANGED <<hvars, gvars, windows, visible, vis_lock, hist_lock, os_clipboard,
                   file, wake_in, uiVars, pollerVars, hotkeyVars, menu_events,
                   unseen_age, rose, signals>>

\* MenuEvent::receiver().recv() returns the Quit event of the thread's own
\* menu: std::process::exit(0) ends every thread where it is.
TrayQuit(t) ==
    /\ tray_pc[t] = "recv"
    /\ tray_pc' = [u \in TrayThreads |-> "off"]
    /\ ui_pc' = "exited"
    /\ poller_pc' = "exited"
    /\ hk_pc' = "off"
    /\ UNCHANGED <<hvars, gvars, windows, visible, vis_lock, hist_lock, os_clipboard,
                   file, win_shown, repaint_req, wake_in, initialized,
                   was_visible, selected_content, woken_by, view_cmd,
                   query_dirty, last_text, current_text, save_result,
                   ctrl_is_down, last_ctrl_press, menu_events, unseen_age, rose,
                   signals>>

TrayThread(t) ==
    \/ TrayRecv(t)
    \/ TrayLock(t)
    \/ TrayToggle(t)
    \/ TrayNotify(t)

Tray == \E t \in TrayThreads : TrayThread(t)

(***************************************************************************)
(* The UI thread: ClipboardHistoryApp::update (src/src/app.rs)             *)
(***************************************************************************)
\* update() is called. The first frame starts the monitor, the hotkey listener
\* and the second tray thread; every frame asks for a repaint in 100 ms. The
\* frame serves the repaint requests made so far.
UiFrame ==
    /\ ui_pc = "idle"
    /\ Deliverable
    /\ initialized' = TRUE
    /\ poller_pc' = IF initialized THEN poller_pc ELSE "init"
    /\ hk_pc' = IF initialized THEN hk_pc ELSE "listen"
    /\ tray_pc' = IF initialized THEN tray_pc
                  ELSE [tray_pc EXCEPT !["tray_app"] = "recv"]
    /\ wake_in' = RepaintAfterMs
    /\ repaint_req' = FALSE
    /\ woken_by' = signals
    /\ signals' = {}
    /\ ui_pc' = "lock_visible"
    /\ UNCHANGED <<hvars, gvars, windows, visible, vis_lock, hist_lock, os_clipboard,
                   file, win_shown, was_visible, view_cmd, query_dirty, selected_content, last_text,
                   current_text, save_result, ctrl_is_down, last_ctrl_press,
                   menu_events, unseen_age, rose>>

\* self.visible.lock().unwrap()
UiLockVisible ==
    /\ ui_pc = "lock_visible"
    /\ vis_lock = "free"
    /\ vis_lock' = "ui"
    /\ ui_pc' = "check_visible"
    /\ UNCHANGED <<hvars, gvars, windows, visible, hist_lock, os_clipboard, file,
                   win_shown, repaint_req, wake_in, initialized, was_visible, view_cmd, query_dirty,
                   selected_content, woken_by, pollerVars, hotkeyVars, trayVars,
                   unseen_age, rose, signals>>

\* let is_visible = *guard; the window is shown on a false -> true change of
\* was_visible and hidden on a true -> false change; a hidden frame returns.
\* In a visible frame Escape was pressed or not.
UiCheckVisible ==
    /\ ui_pc = "check_visible"
    /\ vis_lock' = "free"
    /\ unseen_age' = -1
    /\ win_shown' = IF visible /\ ~was_visible THEN TRUE
                    ELSE IF ~visible /\ was_visible THEN FALSE
                    ELSE win_shown
    /\ was_visible' = visible
    /\ view_cmd' = IF visible /\ ~was_visible THEN "show"
                   ELSE IF ~visible /\ was_visible THEN "hide"
                   ELSE view_cmd
    /\ query_dirty' = IF visible /\ ~was_visible THEN FALSE ELSE query_dirty
    /\ rose' = FALSE
    /\ \/ /\ ~visible
          /\ ui_pc' = "idle"
          /\ woken_by' = {}
       \/ /\ visible
          /\ ui_pc' = "esc_lock"
          /\ woken_by' = {}
       \/ /\ visible
          /\ ui_pc' = "lock_history"
          /\ UNCHANGED woken_by
    /\ UNCHANGED <<hvars, gvars, windows, visible, hist_lock, os_clipboard, file,
                   repaint_req, wake_in, initialized, selected_content,
                   pollerVars, hotkeyVars, trayVars, signals>>

\* Escape: self.visible.lock().unwrap()
UiEscLock ==
    /\ ui_pc = "esc_lock"
    /\ vis_lock = "free"
    /\ vis_lock' = "ui"
    /\ ui_pc' = "esc_hide"
    /\ UNCHANGED <<hvars, gvars, windows, visible, hist_lock, os_clipboard, file,
                   win_shown, repaint_req, wake_in, initialized, was_visible, view_cmd, query_dirty,
                   selected_content, woken_by, pollerVars, hotkeyVars, trayVars,
                   unseen_age, rose, signals>>

\* Escape: *guard = false; the window is hidden; return.
UiEscHide ==
    /\ ui_pc = "esc_hide"
    /\ visible' = FALSE
    /\ vis_lock' = "free"
    /\ win_shown' = FALSE
    /\ ui_pc' = "idle"
    /\ unseen_age' = -1
    /\ rose' = FALSE
    /\ view_cmd' = "hide"
    /\ query_dirty' = FALSE
    /\ UNCHANGED <<hvars, gvars, windows, hist_lock, os_clipboard, file, repaint_req,
                   wake_in, initialized, was_visible, selected_content, woken_by,
                   pollerVars, hotkeyVars, trayVars, signals>>

\* The user types in the search bar or moves the selection while the view is
\* rendered.
UiType ==
    /\ ui_pc = "lock_history"
    /\ ~query_dirty
    /\ query_dirty' = TRUE
    /\ UNCHANGED <<hvars, gvars, windows, visible, vis_lock, hist_lock, os_clipboard,
                   file, win_shown, repaint_req, wake_in, ui_pc, initialized,
                   was_visible, selected_content, woken_by, view_cmd, pollerVars,
                   hotkeyVars, trayVars, unseen_age, rose, signals>>

\* let history = self.history.lock().unwrap();
UiLockHistory ==
    /\ ui_pc = "lock_history"
    /\ hist_lock = "free"
    /\ hist_lock' = "ui"
    /\ ui_pc' = "render"
    /\ UNCHANGED <<hvars, gvars, windows, visible, vis_lock, os_clipboard, file,
                   win_shown, repaint_req, wake_in, initialized, was_visible, view_cmd, query_dirty,
                   selected_content, woken_by, pollerVars, hotkeyVars, trayVars,
                   unseen_age, rose, signals>>

\* The guard of the History is still alive when the selection is handled.
UiRenderKeepsGuard ==
    /\ ui_pc = "render"
    /\ selected_content' \in {""} \cup {entries[i].content : i \in 1..Len(entries)}
    /\ hist_lock' = IF selected_content' = "" THEN "free" ELSE hist_lock
    /\ ui_pc' = IF selected_content' = "" THEN "idle" ELSE "set_text"
    /\ woken_by' = {}
    /\ UNCHANGED <<hvars, gvars, windows, visible, vis_lock, os_clipboard, file,
                   win_shown, repaint_req, wake_in, initialized, was_visible, view_cmd, query_dirty,
                   pollerVars, hotkeyVars, trayVars, unseen_age, rose, signals>>

\* The entries are listed; Enter or a click selects the content of one of them
\* or nothing is selected; drop(history).
UiRender ==
    /\ ui_pc = "render"
    /\ selected_content' \in {""} \cup {entries[i].content : i \in 1..Len(entries)}
    /\ hist_lock' = "free"
    /\ ui_pc' = IF selected_content' = "" THEN "idle" ELSE "set_text"
    /\ woken_by' = {}
    /\ UNCHANGED <<hvars, gvars, windows, visible, vis_lock, os_clipboard, file,
                   win_shown, repaint_req, wake_in, initialized, was_visible, view_cmd, query_dirty,
                   pollerVars, hotkeyVars, trayVars, unseen_age, rose, signals>>

\* A failed clipboard write ends the frame.
UiSetTextOrReturn ==
    /\ ui_pc = "set_text"
    /\ \/ /\ os_clipboard' = selected_content
          /\ ui_pc' = "sel_lock"
       \/ /\ os_clipboard' = os_clipboard
          /\ ui_pc' = "idle"
    /\ UNCHANGED <<hvars, gvars, windows, visible, vis_lock, hist_lock, file,
                   win_shown, repaint_req, wake_in, initialized, was_visible, view_cmd, query_dirty,
                   selected_content, woken_by, pollerVars, hotkeyVars, trayVars,
                   unseen_age, rose, signals>>

\* if let Ok(mut clip) = Clipboard::new() { let _ = clip.set_text(&content); }
\* the text is written, or either call fails and nothing is written.
UiSetText ==
    /\ ui_pc = "set_text"
    /\ os_clipboard' \in {selected_content, os_clipboard}
    /\ ui_pc' = "sel_lock"
    /\ UNCHANGED <<hvars, gvars, windows, visible, vis_lock, hist_lock, file,
                   win_shown, repaint_req, wake_in, initialized, was_visible, view_cmd, query_dirty,
                   selected_content, woken_by, pollerVars, hotkeyVars, trayVars,
                   unseen_age, rose, signals>>

\* Selection: self.visible.lock().unwrap()
UiSelLock ==
    /\ ui_pc = "sel_lock"
    /\ vis_lock = "free"
    /\ vis_lock' = "ui"
    /\ ui_pc' = "sel_hide"
    /\ UNCHANGED <<hvars, gvars, windows, visible, hist_lock, os_clipboard, file,
                   win_shown, repaint_req, wake_in, initialized, was_visible, view_cmd, query_dirty,
                   selected_content, woken_by, pollerVars, hotkeyVars, trayVars,
                   unseen_age, rose, signals>>

\* Selection: *guard = false; the window is hidden.
UiSelHide ==
    /\ ui_pc = "sel_hide"
    /\ visible' = FALSE
    /\ vis_lock' = "free"
    /\ win_shown' = FALSE
    /\ selected_content' = ""
    /\ ui_pc' = "idle"
    /\ unseen_age' = -1
    /\ rose' = FALSE
    /\ view_cmd' = "hide"
    /\ query_dirty' = FALSE
    /\ UNCHANGED <<hvars, gvars, windows, hist_lock, os_clipboard, file, repaint_req,
                   wake_in, initialized, was_visible, woken_by, pollerVars,
                   hotkeyVars, trayVars, signals>>

Ui ==
    \/ UiFrame
    \/ UiLockVisible
    \/ UiCheckVisible
    \/ UiEscLock
    \/ UiEscHide
    \/ UiLockHistory
    \/ UiRender
    \/ UiSetText
    \/ UiSelLock
    \/ UiSelHide

(***************************************************************************)
(* The functions called on their own: History, storage, fuzzy::search      *)
(***************************************************************************)
\* No load and no search was called since the store last changed.
InitCalls ==
    /\ last_load = NoLoad
    /\ last_search = NoSearch

\* A caller creates the store with History::new(m).
InitHistory ==
    /\ max_size \in 0..MaxSizeBound
    /\ entries = HistoryNew(max_size).entries
    /\ next_id = HistoryNew(max_size).next_id
    /\ utc_now = 0
    /\ last_push = NoPush
    /\ assigned = <<>>

\* A caller calls push(content).
Push(content) ==
    /\ next_id <= MaxNewEntries
    /\ LET r == push(Store, content, utc_now) IN
        /\ entries' = r.hist.entries
        /\ next_id' = r.hist.next_id
        /\ max_size' = r.hist.max_size
        /\ last_push' = [called |-> TRUE, content |-> content, pre |-> Store,
                         now |-> utc_now, ret |-> r.ret]
        /\ assigned' = IF r.new_id /= 0
                       THEN Append(assigned, r.new_id)
                       ELSE assigned
    /\ last_load' = NoLoad
    /\ last_search' = NoSearch
    /\ UNCHANGED <<utc_now, matcher, svars, gvars>>

\* Time passes between two calls.
ClockTick ==
    /\ utc_now < MaxClock
    /\ utc_now' = utc_now + 1
    /\ UNCHANGED <<entries, max_size, next_id, last_push, assigned, cvars>>
    /\ UNCHANGED <<svars, gvars>>

\* storage::save(&history) is called.
Save ==
    /\ \E o \in save(file, Store) : file' = o.file
    /\ last_load' = NoLoad
    /\ UNCHANGED <<entries, max_size, next_id, utc_now, last_push, assigned,
                   matcher, last_search>>
    /\ UNCHANGED <<windows, visible, vis_lock, hist_lock, os_clipboard,
                   win_shown, repaint_req, wake_in, uiVars, pollerVars,
                   hotkeyVars, trayVars, unseen_age, rose, signals, gvars>>

\* The file is deleted, or overwritten with something else, by the user.
Damage ==
    /\ file' \in {AbsentFile, CorruptFile} \ {file}
    /\ last_load' = NoLoad
    /\ UNCHANGED <<entries, max_size, next_id, utc_now, last_push, assigned,
                   matcher, last_search>>
    /\ UNCHANGED <<windows, visible, vis_lock, hist_lock, os_clipboard,
                   win_shown, repaint_req, wake_in, uiVars, pollerVars,
                   hotkeyVars, trayVars, unseen_age, rose, signals, gvars>>

\* storage::load(m) is called; pre is the store in memory at that time.
Load(m) ==
    /\ last_load' = [called |-> TRUE, file |-> file, pre |-> Store, arg |-> m,
                     ret |-> load(file, m)]
    /\ UNCHANGED <<entries, max_size, next_id, utc_now, last_push, assigned,
                   matcher, last_search, svars, gvars>>

\* fuzzy::search(query, history.entries()) is called.
Search(query) ==
    /\ last_search' = [called |-> TRUE, query |-> query, entries |-> entries,
                       ret |-> search(query, entries)]
    /\ UNCHANGED <<entries, max_size, next_id, utc_now, last_push, assigned,
                   matcher, last_load, svars, gvars>>

\* if up && self.selected_index > 0 { self.selected_index -= 1; }
arrow_up(index, up) == IF up /\ index > 0 THEN index - 1 ELSE index

\* if down && self.selected_index + 1 < results.len() { self.selected_index += 1; }
arrow_down(index, down, len) ==
    IF down /\ index + 1 < len THEN index + 1 ELSE index

\* if !results.is_empty() && self.selected_index >= results.len()
\*     { self.selected_index = results.len() - 1; }
clamp_never(index, len) == index
clamp(index, len) == IF len /= 0 /\ index >= len THEN len - 1 ELSE index

\* One pass of update() over the result list while the view is shown: the
\* text field holds query after the user's edits, the arrow keys and Enter
\* are pressed or not, a row is clicked or not. results[selected_index] is
\* read on Enter when there are results, and the read is recorded; a selection
\* clears the query and the index.
Render(query, up, down, enter, click) ==
    LET results == search(query, entries)
        len == Len(results)
        index == clamp(arrow_down(arrow_up(selected_index, up), down, len), len)
        by_enter == enter /\ len /= 0
        selected == by_enter \/ click
    IN  /\ click => len /= 0
        /\ last_render' = IF by_enter
                          THEN [called |-> TRUE, enter |-> TRUE,
                                before |-> selected_index, index |-> index,
                                len |-> len]
                          ELSE [NoRender EXCEPT !.called = TRUE]
        /\ search_query' = IF selected THEN "" ELSE query
        /\ selected_index' = IF selected THEN 0 ELSE index
        /\ UNCHANGED <<hvars, svars, kvars, user_does>>

\* The view is shown again, or Escape is pressed: search_query.clear();
\* selected_index = 0.
ShowReset ==
    /\ search_query' = ""
    /\ selected_index' = 0
    /\ last_render' = NoRender
    /\ UNCHANGED <<hvars, svars, kvars, user_does>>

(***************************************************************************)
(* The locks                                                               *)
(***************************************************************************)
Threads == {"ui", "poller", "hotkey"} \cup TrayThreads

\* The locks a thread holds. The hotkey callback holds the lock of
\* last_ctrl_press from `let mut last = last_ctrl.lock().unwrap()` to its
\* return; the lock of ctrl_is_down is taken and dropped before that, and
\* update() takes the lock of cursor_pos after the guard of the flag is gone.
\* These three locks are used by one thread only.
holds(t) ==
    (IF vis_lock = t THEN {"visible"} ELSE {})
    \cup (IF hist_lock = t THEN {"history"} ELSE {})
    \cup (IF t = "hotkey" /\ hk_pc \in {"lock", "toggle", "notify_show", "notify_hide"}
          THEN {"last_ctrl_press"} ELSE {})

\* The lock a thread is about to take: the `.lock()` call it has reached.
wants(t) ==
    CASE t = "ui" /\ ui_pc \in {"lock_visible", "esc_lock", "sel_lock"} -> "visible"
      [] t = "ui" /\ ui_pc = "lock_history" -> "history"
      [] t = "poller" /\ poller_pc = "lock" -> "history"
      [] t = "hotkey" /\ hk_pc = "lock" -> "visible"
      [] t \in TrayThreads /\ tray_pc[t] = "lock" -> "visible"
      [] OTHER -> "none"

\* Every thread and the environment.
Next ==
    \/ Tick
    \/ ClockTick
    \/ \E text \in SysTexts : UserCopy(text)
    \/ \E i \in TrayThreads : MenuClick(i)
    \/ Poller
    \/ Hotkey
    \/ Tray
    \/ \E t \in TrayThreads : TrayQuit(t)
    \/ Ui
    \/ UiType

Spec == Init /\ [][Next]_vars

\* The visibility protocol: the behaviours in which the clipboard monitor
\* takes no step and the clipboard is left alone. The monitor reads and writes
\* none of visible, vis_lock, win_shown, wake_in.
NextVisibility ==
    \/ Tick
    \/ \E i \in TrayThreads : MenuClick(i)
    \/ Hotkey
    \/ Tray
    \/ Ui

SpecVisibility == Init /\ [][NextVisibility]_vars

\* The double tap: the behaviours in which the flag is toggled by the hotkey
\* listener only, time passes and the key events are recorded.
NextHotkey ==
    \/ Tick
    \/ HotkeyRecorded
    \/ Ui

SpecHotkey == Init /\ [][NextHotkey]_vars

\* The sharing of the History: the behaviours in which the flag is toggled
\* from the tray menu by the thread main started, and neither clock advances.
\* The hotkey listener and the tray threads read and write none of the
\* History, hist_lock, file and the clipboard, and created_at decides nothing.
NextSharing ==
    \/ \E text \in SysTexts : UserCopy(text)
    \/ MenuClick("tray_main")
    \/ Poller
    \/ TrayThread("tray_main")
    \/ Ui

\* Off Windows update() may run at any time, on Windows only at some of these
\* times, and windows and win_shown decide nothing else: what the build off
\* Windows can do with the History covers what the Windows build can do.
InitSharing == Init /\ ~windows

SpecSharing == InitSharing /\ [][NextSharing]_vars

\* Persistence: the behaviours in which the window is never shown, the
\* clipboard changes, the monitor pushes and saves, and Quit ends the process.
NextPersistence ==
    \/ \E text \in SysTexts : UserCopy(text)
    \/ Poller
    \/ UiFrame
    \/ UiLockVisible
    \/ UiCheckVisible
    \/ TrayQuit("tray_main")

SpecPersistence == InitSharing /\ [][NextPersistence]_vars

\* What an earlier run saved after it pushed "a" and then "b".
SavedTwo ==
    Document([entries |-> <<ClipboardEntry(2, "b", 0), ClipboardEntry(1, "a", 0)>>,
              max_size |-> MaxSizeBound, next_id |-> 3])

\* main() on the build off Windows with that file, and one of the two texts
\* on the clipboard.
InitReselect ==
    /\ windows = FALSE
    /\ os_clipboard \in {"a", "b"}
    /\ file = SavedTwo
    /\ InitThreads
    /\ user_does = "anything"
    /\ max_size = load(file, MaxSizeBound).max_size
    /\ entries = load(file, MaxSizeBound).entries
    /\ next_id = load(file, MaxSizeBound).next_id
    /\ utc_now = 0
    /\ last_push = NoPush
    /\ assigned = <<>>
    /\ matcher = NoMatch
    /\ last_load = NoLoad
    /\ last_search = NoSearch

\* Selection from the view: the behaviours in which nobody but the UI thread
\* writes the clipboard, the view is toggled from the tray menu by the thread
\* main started, and the process is not ended.
NextReselect ==
    \/ MenuClick("tray_main")
    \/ TrayThread("tray_main")
    \/ Poller
    \/ Ui

\* clipboard.get_text() returns the text.
PollerReads ==
    /\ PollerGetText
    /\ (os_clipboard /= last_text /\ os_clipboard /= "") => poller_pc' = "lock"

\* Every thread is scheduled again and again: the monitor's sleep ends,
\* reading the clipboard does not fail for ever, a lock that is free again
\* and again is acquired, and a frame or a menu handler that has begun goes
\* on to its end.
FairReselect ==
    /\ WF_vars(Poller)
    /\ SF_vars(PollerReads)
    /\ SF_vars(PollerLock)
    /\ WF_vars(Ui)
    /\ WF_vars(TrayThread("tray_main"))

SpecReselect == InitReselect /\ [][NextReselect]_vars /\ FairReselect

\* The contention for the locks, one kind of user at a time: one who only
\* presses Ctrl (with a saved entry to select), one who only uses the menu of
\* the icon built in the first frame, and one who copies a text, which the
\* monitor pushes and saves, and opens the view from the menu of main's icon. The clipboard is empty at the
\* start, and only the first user finds a history file.
InitLocks ==
    /\ windows = FALSE
    /\ user_does \in {"keys", "menus", "copies"}
    /\ os_clipboard = ""
    /\ file \in IF user_does = "keys" THEN InitFiles \ {AbsentFile}
                 ELSE {AbsentFile}
    /\ InitThreads
    /\ max_size = load(file, MaxSizeBound).max_size
    /\ entries = load(file, MaxSizeBound).entries
    /\ next_id = load(file, MaxSizeBound).next_id
    /\ utc_now = 0
    /\ last_push = NoPush
    /\ assigned = <<>>
    /\ matcher = NoMatch
    /\ last_load = NoLoad
    /\ last_search = NoSearch

UserKeys == user_does = "keys" /\ Hotkey
UserMenus == user_does = "menus" /\ MenuClick("tray_app")
UserCopies ==
    /\ user_does = "copies"
    /\ \/ MenuClick("tray_main")
       \/ UserCopy("a")

NextLocks ==
    \/ UserKeys
    \/ UserMenus
    \/ UserCopies
    \/ Poller
    \/ Tray
    \/ Ui

\* The callback from its first .lock() on the flag to its return.
HkHandler == HkLock \/ HkToggle \/ HkNotify

\* Fair scheduling: a thread whose next step is possible again and again
\* takes it, so a lock that is held is released and a `.lock()` call that
\* finds the lock free again and again returns. A thread is at one place at
\* a time, so this is strong fairness of each of its steps. The user need not
\* go on pressing, picking or copying.
FairLocks ==
    /\ SF_vars(Ui)
    /\ SF_vars(Poller)
    /\ SF_vars(HkHandler)
    /\ \A t \in TrayThreads : SF_vars(TrayThread(t))

SpecLocks == InitLocks /\ [][NextLocks]_vars /\ FairLocks

\* The view: the behaviours in which the flag is toggled from the tray menus,
\* the user types, presses Escape or selects, and no time passes.
NextView ==
    \/ \E i \in TrayThreads : MenuClick(i)
    \/ Tray
    \/ Ui
    \/ UiType

SpecView == Init /\ [][NextView]_vars

(***************************************************************************)
(* The History alone, used through its API                                 *)
(***************************************************************************)
NextHistory ==
    \/ \E content \in Contents : Push(content)
    \/ ClockTick

\* A store created by History::new, no thread started, no history file.
InitStore ==
    /\ InitHistory
    /\ InitCalls
    /\ matcher = NoMatch
    /\ InitThreads
    /\ user_does = "anything"
    /\ windows = FALSE
    /\ os_clipboard = ""
    /\ file = AbsentFile

SpecHistory == InitStore /\ [][NextHistory]_vars

\* The store and its file: pushes on a store that is not yet saved, then
\* saves, damage to the file and loads.
PushUnsaved(content) == file.kind = "absent" /\ Push(content)
TickUnsaved == file.kind = "absent" /\ ClockTick

\* The max_size arguments load is called with.
LoadSizes == {0, MaxSizeBound}

\* A store of no capacity or of capacity MaxSizeBound, and no file yet.
InitStorage == InitStore /\ max_size \in LoadSizes

NextStorage ==
    \/ \E content \in Contents : PushUnsaved(content)
    \/ TickUnsaved
    \/ Save
    \/ Damage
    \/ \E m \in LoadSizes : Load(m)

SpecStorage == InitStorage /\ [][NextStorage]_vars

\* Searches of a store of capacity MaxSizeBound, whatever the matcher answers.
InitSearch ==
    /\ InitHistory
    /\ max_size = MaxSizeBound
    /\ InitCalls
    /\ matcher \in Matchers
    /\ InitThreads
    /\ user_does = "anything"
    /\ windows = FALSE
    /\ os_clipboard = ""
    /\ file = AbsentFile

NextSearch ==
    \/ \E content \in Contents : Push(content)
    \/ \E query \in Queries : Search(query)

SpecSearch == InitSearch /\ [][NextSearch]_vars

\* The result list: pushes between frames, passes over the list with any
\* edit of the query and any keys, and resets.
\* The monitor pushes between two frames; it pushes no empty text
\* (!current_text.is_empty()).
PushBetweenFrames(content) == content /= "" /\ Push(content)

NextNavigation ==
    \/ \E content \in Contents : PushBetweenFrames(content)
    \/ \E query \in Queries, up, down, enter, click \in BOOLEAN :
           Render(query, up, down, enter, click)
    \/ ShowReset

\* A store of capacity MaxSizeBound and a matcher that matches any set of the
\* non-empty contents; the scores order the list and do not change its length.
InitNavigation ==
    /\ InitHistory
    /\ max_size = MaxSizeBound
    /\ InitCalls
    /\ matcher \in {m \in Matchers : \A c \in Contents : m[c].score = 0}
    /\ InitThreads
    /\ user_does = "anything"
    /\ windows = FALSE
    /\ os_clipboard = ""
    /\ file = AbsentFile

SpecNavigation == InitNavigation /\ [][NextNavigation]_vars



(***************************************************************************)
(* Properties of History::push                                             *)
(***************************************************************************)
Pre == last_push.pre.entries

\* The last call was push(c) with c absent from the store.
PushedAbsent ==
    /\ last_push.called
    /\ \A i \in 1..Len(Pre) : Pre[i].content /= last_push.content

\* The last call was push(c) with c the content of the entry at index p > 1
\* (position p - 1 > 0 counting from 0) and of no entry before it.
PushedAt(p) ==
    /\ last_push.called
    /\ p \in 2..Len(Pre)
    /\ Pre[p].content = last_push.content
    /\ \A j \in 1..(p - 1) : Pre[j].content /= last_push.content

\* The last call was push(c) with c the content of the most recent entry.
PushedLatest ==
    /\ last_push.called
    /\ Len(Pre) > 0
    /\ Pre[1].content = last_push.content

\* C1: in every state reached by pushes on a store created with
\* History::new(max_size), entries().len() <= max_size.
C1_LenAtMostMaxSize == Len(entries) <= max_size

\* A push of new content on a full store (max_size > 0) has returned.
C1_Witness ==
    /\ PushedAbsent
    /\ max_size > 0
    /\ Len(Pre) = max_size
    /\ Len(entries) = max_size

\* C2: starting from the empty store, no two entries have the same content.
C2_DistinctContents ==
    \A i, j \in 1..Len(entries) :
        entries[i].content = entries[j].content => i = j

\* Content that was already in the store, behind the front, was pushed again.
C2_Witness == \E p \in 2..Len(Pre) : PushedAt(p)

\* C3: push(c) with c the content of the entry at index 0 returns false and
\* leaves entries (order, ids, created_at), length and next_id unchanged.
C3_SkipLatest ==
    PushedLatest =>
        /\ last_push.ret = FALSE
        /\ entries = Pre
        /\ Len(entries) = Len(Pre)
        /\ next_id = last_push.pre.next_id
        /\ max_size = last_push.pre.max_size

\* The most recent content was pushed again at a later time, with another
\* entry behind it.
C3_Witness ==
    /\ PushedLatest
    /\ Len(Pre) >= 2
    /\ last_push.now > Pre[1].created_at

\* C4: push(c) with c at position p > 0 returns true, moves that entry to
\* index 0 with its id (and created_at refreshed), keeps the relative order of
\* the others, the length and next_id.
C4_MoveToFront ==
    \A p \in 2..Len(Pre) :
        PushedAt(p) =>
            /\ last_push.ret = TRUE
            /\ Len(entries) = Len(Pre)
            /\ entries[1].id = Pre[p].id
            /\ entries[1].content = last_push.content
            /\ entries[1].created_at = last_push.now
            /\ \A i \in 2..Len(Pre) :
                   entries[i] = IF i <= p THEN Pre[i - 1] ELSE Pre[i]
            /\ next_id = last_push.pre.next_id

\* The entry at the tail of a store of MaxSizeBound entries was pushed again,
\* later than it was created.
C4_Witness ==
    /\ Len(Pre) >= 2
    /\ PushedAt(Len(Pre))
    /\ last_push.now > Pre[Len(Pre)].created_at

\* The new entry push creates: id = next_id before the call.
NewEntry == ClipboardEntry(last_push.pre.next_id, last_push.content, last_push.now)

\* C5 as stated: push(c) with c absent returns true and a new entry is at
\* index 0; on a store that held max_size entries exactly the tail entry is
\* dropped, the others keep their order and the length is max_size.
C5_Original ==
    PushedAbsent =>
        /\ last_push.ret = TRUE
        /\ Len(entries) >= 1
        /\ entries[1] = NewEntry
        /\ IF Len(Pre) = max_size
           THEN /\ Len(entries) = max_size
                /\ \A i \in 2..Len(entries) : entries[i] = Pre[i - 1]
           ELSE /\ Len(entries) = Len(Pre) + 1
                /\ \A i \in 2..Len(entries) : entries[i] = Pre[i - 1]

\* C5 amended: the same for max_size >= 1; with max_size = 0 push still
\* returns true and advances next_id, but the new entry itself is truncated
\* and the store stays empty.
C5_InsertNew ==
    PushedAbsent =>
        /\ last_push.ret = TRUE
        /\ next_id = last_push.pre.next_id + 1
        /\ IF max_size = 0
           THEN entries = <<>>
           ELSE /\ entries[1] = NewEntry
                /\ Len(entries) = IF Len(Pre) = max_size
                                  THEN max_size ELSE Len(Pre) + 1
                /\ \A i \in 2..Len(entries) : entries[i] = Pre[i - 1]

\* New content was pushed on a full store of at least two entries.
C5_Witness ==
    /\ PushedAbsent
    /\ max_size >= 2
    /\ Len(Pre) = max_size

\* C6: ids of new entries are strictly increasing in creation order (hence
\* pairwise distinct); next_id does not decrease; an entry keeps its id across
\* a push; an id once assigned is below next_id, so it is not assigned again.
C6_IdsMonotonic ==
    /\ \A i, j \in 1..Len(assigned) : i < j => assigned[i] < assigned[j]
    /\ \A i \in 1..Len(assigned) : assigned[i] < next_id
    /\ \A i \in 1..Len(entries) : \E k \in 1..Len(assigned) : entries[i].id = assigned[k]
    /\ last_push.called =>
        /\ last_push.pre.next_id <= next_id
        /\ \A i \in 1..Len(Pre) : \A j \in 1..Len(entries) :
               Pre[i].content = entries[j].content => Pre[i].id = entries[j].id

\* Three entries were created, one was evicted and an older one was moved in
\* front of a newer one.
C6_Witness ==
    /\ Len(assigned) >= 3
    /\ Len(entries) = 2
    /\ entries[1].id < entries[2].id

\* C7: push("") returns false and leaves the store unchanged; no entry with
\* empty content exists.
C7_EmptyRejected ==
    /\ (last_push.called /\ last_push.content = "") =>
           /\ last_push.ret = FALSE
           /\ Store = last_push.pre
    /\ \A i \in 1..Len(entries) : entries[i].content /= ""

(***************************************************************************)
(* Properties of the threads                                               *)
(***************************************************************************)
\* C8: after a toggle by the hotkey or a tray thread, the UI thread reads the
\* new value of the flag within one repaint period (100 ms), whether or not
\* request_repaint reached it: the flag never differs for more than
\* RepaintAfterMs from the value the UI thread last read or wrote.
C8_ToggleReadWithinPeriod == unseen_age <= RepaintAfterMs

\* The same for the build off Windows alone.
C8_OffWindows == ~windows => unseen_age <= RepaintAfterMs

\* C9: the poller issues its repaint request only after push has returned true
\* and storage::save has returned (the file holding the store if it returned
\* Ok), so the store a frame woken by that request reads holds the pushed
\* entry: every content with a request pending or being served is in entries.
C9_PushedBeforeWake ==
    /\ poller_pc = "unlock" =>
           /\ Len(entries) > 0
           /\ entries[1].content = current_text
           /\ save_result \in {"ok", "err"}
           /\ save_result = "ok" => file = Document(Store)
    /\ \A c \in signals \cup woken_by :
           \E i \in 1..Len(entries) : entries[i].content = c

\* A frame that serves a request of the poller holds the lock and reads the
\* store.
C9_Witness ==
    /\ ui_pc = "render"
    /\ hist_lock = "ui"
    /\ woken_by /= {}

\* C10: a thread inside an OS clipboard read, an OS clipboard write or a
\* persistence write holds neither the lock of the History nor the lock of
\* the flag.
C10_NoLockAcrossIO ==
    /\ poller_pc \in {"init", "get_text", "save", "write"} =>
           hist_lock /= "poller" /\ vis_lock /= "poller"
    /\ ui_pc = "set_text" => hist_lock /= "ui" /\ vis_lock /= "ui"

C12_LoadNeverFails ==
    (last_load.called /\ last_load.file.kind /= "doc") =>
        /\ last_load.ret.entries = <<>>
        /\ last_load.ret.max_size = last_load.arg
        /\ last_load.ret.next_id = HistoryNew(last_load.arg).next_id

\* load(MaxSizeBound) was called on a file that is not a document.
C12_Witness ==
    /\ last_load.called
    /\ last_load.file.kind \in {"corrupt", "partial"}
    /\ last_load.arg = MaxSizeBound

(***************************************************************************)
(* Properties of fuzzy::search                                             *)
(***************************************************************************)
\* C13: search("", entries) returns every entry once, in the order of entries,
\* each with score 0.
C13_EmptyQueryAll ==
    (last_search.called /\ last_search.query = "") =>
        /\ Len(last_search.ret) = Len(last_search.entries)
        /\ \A i \in 1..Len(last_search.entries) :
               /\ last_search.ret[i].entry = last_search.entries[i]
               /\ last_search.ret[i].score = 0

\* The empty query was searched in two entries or more, one of which the
\* matcher does not match and one of which it scores above 0.
C13_Witness ==
    /\ last_search.called
    /\ last_search.query = ""
    /\ Len(last_search.entries) >= 2
    /\ \E i \in 1..Len(last_search.entries) :
           ~matcher[last_search.entries[i].content].some
    /\ \E i \in 1..Len(last_search.entries) :
           /\ matcher[last_search.entries[i].content].some
           /\ matcher[last_search.entries[i].content].score > 0

\* C14: search of a non-empty query returns the entries the matcher matches,
\* each once and with the matcher's score, no other entry, and the scores do
\* not increase with the index.
C14_MatchesSorted ==
    (last_search.called /\ last_search.query /= "") =>
        LET es == last_search.entries
            rs == last_search.ret
            q == last_search.query
        IN  /\ \A k \in 1..Len(rs) : \E i \in 1..Len(es) :
                   /\ rs[k].entry = es[i]
                   /\ fuzzy_match(es[i].content, q) = Some(rs[k].score)
            /\ \A i \in 1..Len(es) :
                   Cardinality({k \in 1..Len(rs) : rs[k].entry = es[i]}) =
                       IF fuzzy_match(es[i].content, q).some THEN 1 ELSE 0
            /\ \A k \in 1..(Len(rs) - 1) : rs[k].score >= rs[k + 1].score

\* A non-empty query was searched in entries of which one has no match and a
\* later one has a higher score than an earlier one.
C14_Witness ==
    /\ last_search.called
    /\ last_search.query /= ""
    /\ Len(last_search.ret) < Len(last_search.entries)
    /\ \E i, j \in 1..Len(last_search.entries) :
           /\ i < j
           /\ matcher[last_search.entries[i].content].some
           /\ matcher[last_search.entries[j].content].some
           /\ matcher[last_search.entries[i].content].score <
                  matcher[last_search.entries[j].content].score

(***************************************************************************)
(* Properties of persistence                                               *)
(***************************************************************************)
\* C15: the store the program starts with is the one the file holds; the
\* History changes only in a push of the monitor, under its lock and followed
\* by storage::save before the lock is released; the file changes only under
\* that lock; when the monitor is about to release the lock after a push that
\* returned true, save has returned, the pushed entry is in the store whatever
\* save returned, and the file holds the whole store if save returned Ok. So
\* whenever the lock is free the file holds the store or the last save failed.
C15_SavedAfterMutation ==
    /\ load(file, MaxSizeBound) = Store
    /\ [](poller_pc \in {"repaint", "unlock"} =>
             /\ save_result \in {"ok", "err"}
             /\ save_result = "ok" => load(file, MaxSizeBound) = Store
             /\ Len(entries) > 0
             /\ entries[1].content = current_text)
    /\ [][/\ Store' /= Store =>
                 hist_lock = "poller" /\ hist_lock' = "poller" /\ poller_pc' = "save"
          /\ file' /= file => hist_lock = "poller" /\ hist_lock' = "poller"
         ]_vars

\* save failed after an earlier one had succeeded: the file holds an older
\* store, the store in memory holds the new entry.
C15_Witness ==
    /\ poller_pc = "unlock"
    /\ save_result = "err"
    /\ Len(entries) >= 2
    /\ file.kind = "doc"
    /\ load(file, MaxSizeBound) /= Store

\* C16: outside a write in progress, the file is never what an unfinished
\* write left: it is the previous document or the new one.
C16_NeverPartial == poller_pc /= "write" => file.kind /= "partial"

(***************************************************************************)
(* Properties of the view                                                  *)
(***************************************************************************)
\* C17: every Show/Hide event taken from the receiver leads its thread to
\* toggle; the flag is flipped once, under the lock; the repaint request made
\* afterwards reaches the UI thread.
C17_TrayToggleWakes ==
    [][/\ waiting(menu_events') < waiting(menu_events) =>
              \E t \in TrayThreads : tray_pc[t] = "recv" /\ tray_pc'[t] = "lock"
       /\ \A t \in TrayThreads :
              /\ (tray_pc[t] = "toggle" /\ tray_pc'[t] /= "toggle") =>
                     visible' = ~visible /\ vis_lock = t
              /\ (tray_pc[t] \in {"notify_show", "notify_hide"}
                      /\ tray_pc'[t] = "recv") => repaint_req'
      ]_vars

\* C18: when the flag went from false to true since the UI thread last read or
\* wrote it and the frame goes on to render, the frame has cleared the query
\* and the selection and has shown the view.
C18_RiseIsTransition ==
    [][(ui_pc = "check_visible" /\ ui_pc' \in {"lock_history", "esc_lock"}
            /\ rose) =>
           ~query_dirty' /\ view_cmd' = "show"
      ]_vars

\* C19: a frame that has read the flag as true and renders has show as the
\* last visibility command sent.
C19_ShownWhenVisible ==
    ui_pc \in {"lock_history", "render"} => view_cmd = "show"

\* C20: a selection is the content of an entry; the clipboard write is tried
\* and, done or failed, is followed by the hiding step, which sets the flag to
\* false and clears the query and the selection; no step of the UI thread
\* changes the History or the file.
C20_SelectionHides ==
    [][/\ (ui_pc = "render" /\ ui_pc' = "set_text") =>
              \E i \in 1..Len(entries) : entries[i].content = selected_content'
       /\ (ui_pc = "set_text" /\ ui_pc' /= "set_text") =>
              /\ ui_pc' = "sel_lock"
              /\ os_clipboard' \in {selected_content, os_clipboard}
              /\ visible' = visible
       /\ (ui_pc = "sel_hide" /\ ui_pc' /= "sel_hide") =>
              /\ ui_pc' = "idle"
              /\ visible' = FALSE
              /\ ~query_dirty'
       /\ ui_pc' /= ui_pc => Store' = Store /\ file' = file
      ]_vars

\* An entry was selected with a query typed, the clipboard write failed, and
\* the frame is about to hide the view.
C20_Witness ==
    /\ ui_pc = "sel_hide"
    /\ vis_lock = "ui"
    /\ selected_content /= ""
    /\ os_clipboard /= selected_content
    /\ query_dirty


(***************************************************************************)
(* C21. A Ctrl key-press event received while ctrl_is_down is true (no     *)
(* release since the last press that found it false) is ignored entirely:  *)
(* the step changes neither the flag nor the recorded timestamp, requests  *)
(* no repaint and leaves the listener waiting; every toggle the listener   *)
(* makes comes from a press that was no such event, so holding the key for *)
(* any time toggles nothing.                                               *)
(***************************************************************************)
C21_RepeatsIgnored ==
    /\ [](hk_pc /= "listen" => key_repeats = 0)
    /\ [][key_repeats' > key_repeats =>
            /\ ctrl_is_down /\ ctrl_is_down'
            /\ hk_pc = "listen" /\ hk_pc' = "listen"
            /\ visible' = visible
            /\ last_ctrl_press' = last_ctrl_press
            /\ repaint_req' = repaint_req
            /\ vis_lock' = vis_lock
         ]_vars

\* The key has been held for 200 ms or more after a press that armed the
\* timer, and two key-press events of the held key have arrived.
C21_Witness ==
    /\ key_repeats >= 2
    /\ ctrl_is_down
    /\ prev_armed
    /\ last_ctrl_press >= 2 * TickMs
    /\ hk_pc = "listen"

(***************************************************************************)
(* C22. A press that finds ctrl_is_down false goes on to toggle if and     *)
(* only if the press before it armed the timer and came less than 300 ms   *)
(* earlier; in a run of presses each less than 300 ms after the one before *)
(* exactly the 2nd, 4th, ... toggle, so k of them toggle k \div 2 times;   *)
(* any other press only sets the timestamp. A toggle takes the lock, flips *)
(* the flag once, requests a repaint and clears the timestamp; nothing     *)
(* else in the listener changes the flag.                                  *)
(***************************************************************************)
C22_DoubleTapToggles ==
    [][ /\ (~ctrl_is_down /\ ctrl_is_down') =>
              /\ (hk_pc' = "lock") <=>
                     (prev_armed /\ since_press /= -1 /\ since_press < DoubleTapMs)
              /\ (hk_pc' = "lock") <=> run_even'
              /\ hk_pc' /= "lock" => hk_pc' = "listen" /\ last_ctrl_press' = 0
              /\ visible' = visible
              /\ repaint_req' = repaint_req
        /\ (hk_pc = "lock" /\ hk_pc' /= "lock") =>
              hk_pc' = "toggle" /\ vis_lock' = "hotkey" /\ visible' = visible
        /\ (hk_pc = "toggle" /\ hk_pc' /= "toggle") =>
              /\ visible' = ~visible
              /\ vis_lock' = "free"
              /\ hk_pc' = IF visible' THEN "notify_show" ELSE "notify_hide"
        /\ (hk_pc \in {"notify_show", "notify_hide"} /\ hk_pc' /= hk_pc) =>
              /\ hk_pc' = "listen"
              /\ repaint_req'
              /\ last_ctrl_press' = -1
              /\ visible' = visible
        /\ visible' /= visible =>
              hk_pc = "toggle" \/ ui_pc \in {"esc_hide", "sel_hide"}
      ]_vars

\* The second double tap of a run of four presses is being served: the flag
\* was shown by the first and is hidden again.
C22_Witness ==
    /\ hk_pc = "notify_hide"
    /\ run_even
    /\ ~prev_armed
    /\ since_press = 0
    /\ was_visible
    /\ key_repeats = 0

(***************************************************************************)
(* C25. Whenever results[selected_index] is read on Enter, selected_index  *)
(* is below results.len(): after any arrow keys, any edit of the query     *)
(* that shrinks or grows the result list, and any pushes between frames.   *)
(***************************************************************************)
C25_IndexInBounds ==
    (last_render.called /\ last_render.enter) =>
        last_render.index < last_render.len

\* Enter was pressed in a pass whose result list was shorter than the index
\* left by the pass before it.
C25_Witness ==
    /\ last_render.called
    /\ last_render.enter
    /\ last_render.before >= last_render.len
    /\ last_render.before >= 2

(***************************************************************************)
(* C24. After an entry with content c was selected in the view and the     *)
(* clipboard holds c, the monitor eventually pushes c: the entry with      *)
(* content c, with the id it had, comes to index 0, unless the clipboard   *)
(* is given another text first. This is claimed of every entry of the      *)
(* store, also of one loaded from the file whose content is the text the   *)
(* monitor found on the clipboard when it started.                         *)
(***************************************************************************)
Selected(c) ==
    /\ ui_pc = "sel_lock"
    /\ selected_content = c
    /\ os_clipboard = c
    /\ poller_pc \notin {"off", "init", "exited"}

AtFront(c, id) ==
    /\ Len(entries) > 0
    /\ entries[1].content = c
    /\ entries[1].id = id

C24_SelectedMovesToFront ==
    /\ Selected("a") ~> (AtFront("a", 1) \/ os_clipboard /= "a")
    /\ Selected("b") ~> (AtFront("b", 2) \/ os_clipboard /= "b")

(***************************************************************************)
(* C23. No deadlock on the locks: no thread waits for the lock of the flag *)
(* while it holds the lock of the History, or the other way round, and no  *)
(* thread holds both; a thread that holds a lock while it takes another is *)
(* the hotkey thread, holding the lock of last_ctrl_press and taking the   *)
(* lock of the flag; and under fair scheduling every thread that has       *)
(* reached a `.lock()` call comes to hold that lock.                       *)
(***************************************************************************)
C23_NoDeadlock ==
    /\ [](\A t \in Threads :
            /\ ~({"visible", "history"} \subseteq holds(t))
            /\ ~("history" \in holds(t) /\ wants(t) = "visible")
            /\ ~("visible" \in holds(t) /\ wants(t) = "history")
            /\ (wants(t) /= "none" /\ holds(t) /= {}) =>
                  /\ t = "hotkey"
                  /\ holds(t) = {"last_ctrl_press"}
                  /\ wants(t) = "visible")
    /\ (wants("ui") = "visible") ~> (vis_lock = "ui")
    /\ (wants("ui") = "history") ~> (hist_lock = "ui")
    /\ (wants("poller") = "history") ~> (hist_lock = "poller")
    /\ (wants("hotkey") = "visible") ~> (vis_lock = "hotkey")
    /\ (wants("tray_main") = "visible") ~> (vis_lock = "tray_main")
    /\ (wants("tray_app") = "visible") ~> (vis_lock = "tray_app")

\* The hotkey thread, holding the lock of last_ctrl_press, waits for the lock
\* of the flag, which the UI thread holds to hide the view after a selection.
C23_Witness ==
    /\ wants("hotkey") = "visible"
    /\ holds("hotkey") = {"last_ctrl_press"}
    /\ holds("ui") = {"visible"}
    /\ ui_pc = "sel_hide"


=============================================================================
